---- MODULE Spec2Model ----
(***************************************************************************)
(* A model of the OpenWeatherMap client library (src/OpenWeatherMap.cpp,   *)
(* src/OpenWeatherMap.h): the client's fields, its public operations, the  *)
(* transport (httpGet, in both of its builds), the decoders and the        *)
(* current-weather cache.                                                  *)
(*                                                                         *)
(* A public operation runs as a sequence of steps: the step that enters    *)
(* it, the steps of each httpGet it performs (one per library call on      *)
(* ESP32, one per loop iteration on the UNO R4 WiFi), and the step that    *)
(* resumes the caller of httpGet and runs to the next httpGet or to the    *)
(* operation's return.  The code between two network interactions is       *)
(* sequential and is written as functions from a state record to a state   *)
(* record, composed in the order of the source.                            *)
(***************************************************************************)
EXTENDS Integers, Sequences, FiniteSets, TLC

VARIABLES
    platform,           \* the build: which branch of httpGet's #if is compiled
    peer,               \* the peers of this behaviour: "orderly" or "any"
    clock,              \* millis(): a 32-bit wrapping millisecond counter
    _apiKey,            \* char[48]
    _units,             \* OWM_Units
    _lang,              \* char[8]
    _cacheDuration,     \* unsigned long
    _timeout,           \* unsigned long
    _lastHttpCode,      \* int
    _lastError,         \* char[64]
    _lastWeatherTime,   \* unsigned long
    _cachedLat,         \* float
    _cachedLon,         \* float
    _cachedWeather,     \* OWM_CurrentWeather
    _hasCachedWeather,  \* bool
    pc,                 \* position of the running operation
    op,                 \* the public operation in progress
    fn,                 \* the endpoint function whose httpGet is in progress
    lat,                \* getCurrentWeather's lat argument
    lon,                \* getCurrentWeather's lon argument
    maxN,               \* maxResults / maxItems of the running list function
    cnt,                \* the cnt argument of the running forecast operation
    http,               \* httpGet's locals and its connection
    ret,                \* the value the last operation returned (bool as 0/1)
    weather,            \* the caller's OWM_CurrentWeather output buffer
    location,           \* getCoordinatesByZip's OWM_GeoLocation output buffer
    results,            \* the OWM_GeoLocation array parseGeoLocations writes:
                        \* the caller's results, or the by-city local
    pollution,          \* the caller's OWM_AirPollution output buffer
    list,               \* the caller's OWM_AirPollution array
    forecast,           \* the caller's OWM_Forecast output buffer
    calls,              \* history: operations invoked so far
    ticks,              \* history: idle waits so far
    trips,              \* history: httpGet exchanges of the running operation
    reqs,               \* history: the requests of the running operation
    answers,            \* history: what each httpGet of the running operation
                        \* gave its caller: << >> for false, else << response >>
    sent,               \* history: items the peer delivered in this exchange
    cause,              \* history: what made the running operation fail
    pre,                \* history: what the operation found when it began
    served,             \* history: the structure handed out by the fetch that
                        \* last filled the cache, << >> when there was none
    fetchedUnder,       \* history: the API key, units and language that fetch
                        \* was made under
    hit,                \* history: the operation was served from the cache
    decodes,            \* history: decoder runs of the running operation
    rx,                 \* history: the status code the peer sent in the last exchange
    aged,               \* history: the true age of the cache entry reached 2^32 ms
    readStart,          \* history: millis() when the read phase began
    overrun             \* history: bytes were consumed after the timeout had passed

vars == << platform, peer, clock, _apiKey, _units, _lang, _cacheDuration, _timeout, _lastHttpCode, _lastError,
           _lastWeatherTime, _cachedLat, _cachedLon, _cachedWeather,
           _hasCachedWeather, pc, op, fn, lat, lon, maxN, cnt, http, ret, weather,
           location, results, pollution, list, forecast, calls, ticks, trips, reqs,
           answers, sent, cause, pre, served, fetchedUnder, hit,
           decodes, rx, aged, readStart, overrun >>

----------------------------------------------------------------------------
(* Bounds of the model *)

\* public operations invoked in one behaviour
MaxCalls == 2
\* idle waits between operations in one behaviour
MaxTicks == 1
\* items (lines, fragments, body chunks) the peer delivers in one exchange
MaxItems == 4
\* the capacity of a text field, in bytes (in the source: 8 to 64)
TextCap == 3
\* the slots of an output array that are followed
MaxOut == 3

----------------------------------------------------------------------------
(* Program constants *)

OWM_CACHE_DURATION_MS == 60000
OWM_MAX_GEO_RESULTS == 5
OWM_MAX_FORECAST_ITEMS == 40
\* the only status code httpGet accepts
HTTP_OK == 200
\* 0.01 degrees, coordinates being counted in thousandths of a degree
Tolerance == 10
\* delay(10) of the wait loop and delay(1) of the read loop
WaitDelay == 10
ReadDelay == 1

----------------------------------------------------------------------------
(* unsigned long: 32 bits, kept as two 16-bit halves << high, low >> *)

Half == 256 * 256

U32(n) == << (n \div Half) % Half, n % Half >>

Zero32 == << 0, 0 >>

Add32(a, b) ==
    LET lo == a[2] + b[2]
        hi == a[1] + b[1] + (lo \div Half)
    IN  << hi % Half, lo % Half >>

Sub32(a, b) ==
    LET lo == a[2] - b[2]
        borrow == IF lo < 0 THEN 1 ELSE 0
        hi == a[1] - b[1] - borrow
    IN  << (hi + Half) % Half, (lo + Half) % Half >>

Lt32(a, b) == a[1] < b[1] \/ (a[1] = b[1] /\ a[2] < b[2])

\* a + b does not fit in 32 bits
Carry32(a, b) == a[1] + b[1] + ((a[2] + b[2]) \div Half) >= Half

Abs(x) == IF x > 0 THEN x ELSE -x

----------------------------------------------------------------------------
(* Values *)

Platforms == { "ESP32", "ARDUINO_UNOWIFIR4" }

\* an error message held in _lastError; "HTTP Error: %d" carries its code
Err(text) == << text >>
HttpError(code) == << "HTTP Error: ", code >>

\* A text field is TextCap bytes: 0 is the terminator, any other value a
\* character.  What a buffer nobody has written may hold is 9 or 7.
ZeroText == [ i \in 1..TextCap |-> 0 ]
JunkText == [ i \in 1..TextCap |-> 9 ]

\* strncpy(dest, src, n) of the C library: n bytes are written, those of
\* src and then zeros; no terminator is added when src has n bytes or more
strncpy(dest, src, n) ==
    [ i \in 1..Len(dest) |->
        IF i > n THEN dest[i]
        ELSE IF i <= Len(src) THEN src[i]
        ELSE 0 ]

\* OWM_CurrentWeather, by three of its fields: main.temp, weather.id, name
ZeroWeather == [ temp |-> 0, id |-> 0, name |-> ZeroText ]
JunkWeather == [ temp |-> 7, id |-> 7, name |-> JunkText ]
\* OWM_GeoLocation, by name, lat and lon
ZeroLocation == [ name |-> ZeroText, lat |-> 0, lon |-> 0 ]
JunkLocation == [ name |-> JunkText, lat |-> 7, lon |-> 7 ]
JunkResults == [ i \in 1..MaxOut |-> JunkLocation ]
\* OWM_AirPollution, by main.aqi
ZeroPollution == [ aqi |-> 0 ]
JunkPollution == [ aqi |-> 7 ]
JunkList == [ i \in 1..MaxOut |-> JunkPollution ]
\* OWM_Forecast, by cnt, the dt of its first items, and city_name
ZeroForecast == [ cnt |-> 0, items |-> [ i \in 1..MaxOut |-> 0 ],
                  city_name |-> ZeroText ]
JunkForecast == [ cnt |-> 7, items |-> [ i \in 1..MaxOut |-> 7 ],
                  city_name |-> JunkText ]

\* a JSON field read by key: << >> when absent, << v >> when present
OrDefault(v, d) == IF v = << >> THEN d ELSE v[1]

\* A response body, as the JSON document it spells.  Of an object: temp is
\* main.temp, id is weather[0].id, name is name (city.name in a forecast),
\* cnt is cnt, list is the "list" array by the dt (main.aqi) of its entries.
\* elems are the entries of a top-level array.
MalformedDoc == [ kind |-> "malformed", temp |-> << >>, id |-> << >>,
                  name |-> << >>, cnt |-> << >>, list |-> << >>,
                  elems |-> << >> ]
ObjectDoc(t, i, n, c, l) == [ kind |-> "object", temp |-> t, id |-> i,
                              name |-> n, cnt |-> c, list |-> l,
                              elems |-> << >> ]
ArrayDoc(es) == [ kind |-> "array", temp |-> << >>, id |-> << >>,
                  name |-> << >>, cnt |-> << >>, list |-> << >>,
                  elems |-> es ]

\* coordinates, in thousandths of a degree
CoordPairs == { << 0, 0 >>, << 5, -5 >>, << 20, 0 >>, << 0, 20 >> }

\* source strings: one that fits a text field, one that is longer than it
ShortName == << 1 >>
LongName == [ i \in 1..(TextCap + 1) |-> 1 ]

GeoEntry(n, la, lo) == [ name |-> n, lat |-> la, lon |-> lo ]

\* the bodies a peer may answer any request with
Bodies ==
    { MalformedDoc,
      ObjectDoc(<< 21 >>, << 800 >>, << LongName >>, << 2 >>, << 11, 12 >>),
      ArrayDoc(<< >>),
      ArrayDoc(<< GeoEntry(<< LongName >>, 5, -5),
                  GeoEntry(<< ShortName >>, 20, 0) >>) }

\* more bodies for a forecast request: cnt absent, negative, below the
\* length of the list, above OWM_MAX_FORECAST_ITEMS
ForecastBodies ==
    { ObjectDoc(<< 21 >>, << 800 >>, << ShortName >>, c, << 11, 12 >>)
      : c \in { << >>, << -1 >>, << 1 >>, << OWM_MAX_FORECAST_ITEMS + 1 >> } }

\* the bodies a peer may answer a request of endpoint function f with
BodiesFor(f) == IF f = "getForecast" THEN Bodies \cup ForecastBodies ELSE Bodies

\* values the caller passes
Durations == { Zero32, U32(OWM_CACHE_DURATION_MS) }
Timeouts == { U32(2) }
MaxArgs == { 0, 1, 7 }
\* the cnt argument of the forecast operations
CntArgs == { 0, 3, OWM_MAX_FORECAST_ITEMS + 1 }
\* how long the caller waits between two operations: << w, d >> is
\* w * 2^32 + d milliseconds
IdleSteps == { << 0, U32(OWM_CACHE_DURATION_MS) >>, << 1, U32(5) >> }
\* how long a blocking library call (connect, GET) takes
NetDelays == { U32(3) }

\* the configurations the application chooses from
ApiKeys == { "", "key" }
Units == { "OWM_UNITS_METRIC", "OWM_UNITS_IMPERIAL" }
Languages == { "en", "it" }

\* status codes a peer answers with
StatusCodes == { 200, 404 }
\* HTTPClient::GET() returns the status code, or a negative error:
\* connection refused (-1), read timeout (-11)
Esp32Results == StatusCodes \cup { -1, -11 }

----------------------------------------------------------------------------
(* The state as a record, so that sequential code composes as functions.   *)
(* rv is the return value of the function that ran last.                   *)

St == [ platform |-> platform, peer |-> peer, clock |-> clock,
        _apiKey |-> _apiKey, _units |-> _units, _lang |-> _lang,
        fetchedUnder |-> fetchedUnder,
        _cacheDuration |-> _cacheDuration, _timeout |-> _timeout,
        _lastHttpCode |-> _lastHttpCode, _lastError |-> _lastError,
        _lastWeatherTime |-> _lastWeatherTime, _cachedLat |-> _cachedLat,
        _cachedLon |-> _cachedLon, _cachedWeather |-> _cachedWeather,
        _hasCachedWeather |-> _hasCachedWeather, pc |-> pc, op |-> op,
        fn |-> fn, lat |-> lat, lon |-> lon, maxN |-> maxN, cnt |-> cnt,
        http |-> http, reqs |-> reqs, answers |-> answers,
        ret |-> ret, weather |-> weather, location |-> location,
        results |-> results, pollution |-> pollution, list |-> list,
        forecast |-> forecast,
        calls |-> calls, ticks |-> ticks, trips |-> trips, sent |-> sent,
        cause |-> cause, pre |-> pre, served |-> served, hit |-> hit,
        decodes |-> decodes,
        rx |-> rx, aged |-> aged, readStart |-> readStart,
        overrun |-> overrun, rv |-> 0 ]

Become(s) ==
    /\ platform' = s.platform
    /\ peer' = s.peer
    /\ clock' = s.clock
    /\ _apiKey' = s._apiKey
    /\ _units' = s._units
    /\ _lang' = s._lang
    /\ fetchedUnder' = s.fetchedUnder
    /\ _cacheDuration' = s._cacheDuration
    /\ _timeout' = s._timeout
    /\ _lastHttpCode' = s._lastHttpCode
    /\ _lastError' = s._lastError
    /\ _lastWeatherTime' = s._lastWeatherTime
    /\ _cachedLat' = s._cachedLat
    /\ _cachedLon' = s._cachedLon
    /\ _cachedWeather' = s._cachedWeather
    /\ _hasCachedWeather' = s._hasCachedWeather
    /\ pc' = s.pc
    /\ op' = s.op
    /\ fn' = s.fn
    /\ lat' = s.lat
    /\ lon' = s.lon
    /\ maxN' = s.maxN
    /\ cnt' = s.cnt
    /\ reqs' = s.reqs
    /\ answers' = s.answers
    /\ http' = s.http
    /\ ret' = s.ret
    /\ weather' = s.weather
    /\ location' = s.location
    /\ results' = s.results
    /\ pollution' = s.pollution
    /\ list' = s.list
    /\ forecast' = s.forecast
    /\ calls' = s.calls
    /\ ticks' = s.ticks
    /\ trips' = s.trips
    /\ sent' = s.sent
    /\ cause' = s.cause
    /\ pre' = s.pre
    /\ served' = s.served
    /\ hit' = s.hit
    /\ decodes' = s.decodes
    /\ rx' = s.rx
    /\ aged' = s.aged
    /\ readStart' = s.readStart
    /\ overrun' = s.overrun

\* the cache, as one value
Cache(s) == [ weather |-> s._cachedWeather, lat |-> s._cachedLat,
              lon |-> s._cachedLon, time |-> s._lastWeatherTime,
              has |-> s._hasCachedWeather ]

\* what an operation finds when it begins: the cache, the time, the
\* exchanges made so far
Snapshot(s) == [ cache |-> Cache(s), now |-> s.clock, aged |-> s.aged,
                 trips |-> s.trips, dur |-> s._cacheDuration,
                 error |-> s._lastError ]

\* d milliseconds pass.  The true age of the cache entry is its 32-bit age
\* plus 2^32 for every time that age wrapped; aged records the first wrap.
Elapse(s, d) ==
    [ s EXCEPT !.clock = Add32(s.clock, d),
               !.aged = s.aged \/ ( s._hasCachedWeather
                                    /\ Carry32(Sub32(s.clock, s._lastWeatherTime), d) ) ]

millis(s) == s.clock

delay(s, ms) == Elapse(s, U32(ms))

setError(s, error) == [ s EXCEPT !._lastError = Err(error) ]

\* the first failure of the running operation
Fail(s, why) == [ s EXCEPT !.cause = IF s.cause = "" THEN why ELSE s.cause ]

----------------------------------------------------------------------------
(* Response Decoder *)

\* The response String: nothing yet, a proper prefix of the text of doc, or
\* the whole text of doc.
EmptyResponse == [ st |-> "empty", doc |-> MalformedDoc ]

\* deserializeJson reports an error: empty input, incomplete input or
\* invalid input
DeserializationError(json) ==
    json.st # "complete" \/ json.doc.kind = "malformed"

\* doc[key], null (absent) unless doc is an object that has the key
JsonField(doc, key) ==
    IF doc.kind = "object" /\ key \in DOMAIN doc THEN doc[key] ELSE << >>

\* doc.as<JsonArray>() of the top-level value
JsonArray(doc) == IF doc.kind = "array" THEN doc.elems ELSE << >>

\* an output array after its first slots were written
Overwrite(arr, written) ==
    [ i \in 1..Len(arr) |-> IF i <= Len(written) THEN written[i] ELSE arr[i] ]

\* a loop that stops one entry late
RECURSIVE ListLoopOneMore(_, _, _)
ListLoopOneMore(arr, count, maxItems) ==
    IF count >= Len(arr) \/ count > maxItems
    THEN << >>
    ELSE << arr[count + 1] >> \o ListLoopOneMore(arr, count + 1, maxItems)

\* the loop of the list decoders: the entries written, in order
RECURSIVE ListLoop(_, _, _)
ListLoop(arr, count, maxItems) ==
    IF count >= Len(arr) \/ count >= maxItems
    THEN << >>
    ELSE << arr[count + 1] >> \o ListLoop(arr, count + 1, maxItems)

parseCurrentWeather(s, json) ==
    LET z == [ s EXCEPT !.weather = ZeroWeather, !.decodes = @ + 1 ]
    IN  IF DeserializationError(json)
        THEN [ Fail(setError(z, "JSON parse error"), "json") EXCEPT !.rv = 0 ]
        ELSE [ z EXCEPT
                 !.weather =
                     [ temp |-> OrDefault(JsonField(json.doc, "temp"), 0),
                       id |-> OrDefault(JsonField(json.doc, "id"), 0),
                       name |-> strncpy(ZeroText,
                                        OrDefault(JsonField(json.doc, "name"), << >>),
                                        TextCap - 1) ],
                 !.rv = 1 ]

\* a parseForecast that counts as a fill of the weather cache
parseForecastCaches(s, json) ==
    [ s EXCEPT !.forecast = ZeroForecast, !.decodes = @ + 1,
               !._hasCachedWeather = TRUE,
               !._lastWeatherTime = millis(s),
               !.rv = IF DeserializationError(json) THEN 0 ELSE 1 ]

parseForecast(s, json) ==
    LET z == [ s EXCEPT !.forecast = ZeroForecast, !.decodes = @ + 1 ]
        upstream == OrDefault(JsonField(json.doc, "cnt"), 0)
        capped == IF upstream > OWM_MAX_FORECAST_ITEMS
                  THEN OWM_MAX_FORECAST_ITEMS ELSE upstream
        written == ListLoop(JsonField(json.doc, "list"), 0, capped)
    IN  IF DeserializationError(json)
        THEN [ Fail(setError(z, "JSON parse error"), "json") EXCEPT !.rv = 0 ]
        ELSE [ z EXCEPT
                 !.forecast =
                     [ cnt |-> capped,
                       items |-> Overwrite(ZeroForecast.items, written),
                       city_name |-> strncpy(ZeroText,
                                             OrDefault(JsonField(json.doc, "name"), << >>),
                                             TextCap - 1) ],
                 !.rv = 1 ]

parseAirPollution(s, json) ==
    LET z == [ s EXCEPT !.pollution = ZeroPollution, !.decodes = @ + 1 ]
        entries == JsonField(json.doc, "list")
    IN  IF DeserializationError(json)
        THEN [ Fail(setError(z, "JSON parse error"), "json") EXCEPT !.rv = 0 ]
        ELSE [ z EXCEPT
                 !.pollution = IF Len(entries) > 0
                               THEN [ aqi |-> entries[1] ]
                               ELSE ZeroPollution,
                 !.rv = 1 ]

parseAirPollutionList(s, json, maxItems) ==
    LET z == [ s EXCEPT !.decodes = @ + 1 ]
        written == ListLoop(JsonField(json.doc, "list"), 0, maxItems)
    IN  IF DeserializationError(json)
        THEN [ Fail(setError(z, "JSON parse error"), "json") EXCEPT !.rv = -1 ]
        ELSE [ z EXCEPT
                 !.list = Overwrite(s.list,
                                    [ i \in 1..Len(written) |-> [ aqi |-> written[i] ] ]),
                 !.rv = Len(written) ]

\* a parseGeoLocations without the test of the top-level value
parseGeoLocationsAnyShape(s, json, maxResults) ==
    LET z == [ s EXCEPT !.decodes = @ + 1 ]
        written == ListLoop(JsonArray(json.doc), 0, maxResults)
    IN  IF DeserializationError(json)
        THEN [ Fail(setError(z, "JSON parse error"), "json") EXCEPT !.rv = -1 ]
        ELSE [ z EXCEPT !.rv = Len(written) ]

parseGeoLocations(s, json, maxResults) ==
    LET z == [ s EXCEPT !.decodes = @ + 1 ]
        written == ListLoop(JsonArray(json.doc), 0, maxResults)
    IN  IF DeserializationError(json)
        THEN [ Fail(setError(z, "JSON parse error"), "json") EXCEPT !.rv = -1 ]
        ELSE IF json.doc.kind # "array"
        THEN [ Fail(setError(z, "Invalid response format"), "format")
                 EXCEPT !.rv = -1 ]
        ELSE [ z EXCEPT
                 !.results =
                     Overwrite(s.results,
                               [ i \in 1..Len(written) |->
                                   [ name |-> strncpy(s.results[i].name,
                                                      OrDefault(written[i].name, << >>),
                                                      TextCap - 1),
                                     lat |-> written[i].lat,
                                     lon |-> written[i].lon ] ]),
                 !.rv = Len(written) ]

parseGeoZip(s, json) ==
    LET z == [ s EXCEPT !.location = ZeroLocation, !.decodes = @ + 1 ]
    IN  IF DeserializationError(json)
        THEN [ Fail(setError(z, "JSON parse error"), "json") EXCEPT !.rv = 0 ]
        ELSE [ z EXCEPT
                 !.location =
                     [ name |-> strncpy(ZeroText,
                                        OrDefault(JsonField(json.doc, "name"), << >>),
                                        TextCap - 1),
                       lat |-> OrDefault(JsonField(json.doc, "lat"), 0),
                       lon |-> OrDefault(JsonField(json.doc, "lon"), 0) ],
                 !.rv = 1 ]

----------------------------------------------------------------------------
(* Facade and cache: the code around httpGet *)

ByCityOps == { "getCurrentWeatherByCity", "getForecastByCity" }
\* the functions that return a count, -1 on error
CountFns == { "getCoordinatesByName", "getLocationByCoordinates",
              "getAirPollutionForecast", "getAirPollutionHistory" }

\* httpGet's locals before its first statement, and no connection
IdleHttp == [ timeout |-> Zero32, headersDone |-> FALSE, line |-> "",
              response |-> EmptyResponse, connected |-> FALSE,
              peerOpen |-> FALSE, avail |-> FALSE ]

\* what the path of a weather request is built from besides the coordinates
Config(s) == << s._apiKey, s._units, s._lang >>

\* the public operation returns r to its caller
opReturn(s, r) ==
    [ s EXCEPT !.pc = "done", !.ret = r,
               !.fetchedUnder = IF /\ s.fn = "getCurrentWeather"
                                   /\ r = 1
                                   /\ s.trips > s.pre.trips
                                   /\ s._cacheDuration # Zero32
                                THEN Config(s)
                                ELSE s.fetchedUnder,
               !.served = IF /\ s.fn = "getCurrentWeather"
                             /\ r = 1
                             /\ s.trips > s.pre.trips
                             /\ s._cacheDuration # Zero32
                          THEN << s.weather >>
                          ELSE s.served ]

\* The path of a request, by what the claims speak of: the item count in
\* its query (limit= or cnt=), << >> when it has none, and the coordinates
\* in its query, << >> when it has none
Path(n, at) == [ n |-> n, at |-> at ]

\* httpGet is entered by endpoint function f
httpGet(s, f, path) ==
    [ s EXCEPT !.fn = f, !.trips = @ + 1, !.sent = 0, !.rx = << >>,
               !.reqs = Append(@, [ to |-> f, path |-> path ]),
               !.decodes = 0,
               !.http = [ IdleHttp EXCEPT !.connected = s.http.connected ],
               !.pc = IF s.platform = "ESP32" THEN "begin" ELSE "connect" ]

\* a cache test that wants the very coordinates of the entry
cacheValidExact(s, la, lo) ==
    /\ s._cacheDuration # Zero32
    /\ s._hasCachedWeather
    /\ Lt32(Sub32(millis(s), s._lastWeatherTime), s._cacheDuration)
    /\ s._cachedLat = la
    /\ s._cachedLon = lo

\* getCoordinatesByName up to its httpGet
getCoordinatesByName(s, maxResults) ==
    LET m == IF maxResults > OWM_MAX_GEO_RESULTS
             THEN OWM_MAX_GEO_RESULTS ELSE maxResults
    IN  httpGet([ s EXCEPT !.maxN = m ], "getCoordinatesByName",
                Path(<< m >>, << >>))

\* getLocationByCoordinates up to its httpGet
getLocationByCoordinates(s, la, lo, maxResults) ==
    LET m == IF maxResults > OWM_MAX_GEO_RESULTS
             THEN OWM_MAX_GEO_RESULTS ELSE maxResults
    IN  httpGet([ s EXCEPT !.maxN = m ], "getLocationByCoordinates",
                Path(<< m >>, << la, lo >>))

\* getForecast up to its httpGet
getForecast(s, la, lo, n) ==
    httpGet(s, "getForecast",
            Path(IF n > 0 THEN << n >> ELSE << >>, << la, lo >>))

\* the cache test of getCurrentWeather
cacheValid(s, la, lo) ==
    /\ s._cacheDuration # Zero32
    /\ s._hasCachedWeather
    /\ Lt32(Sub32(millis(s), s._lastWeatherTime), s._cacheDuration)
    /\ Abs(s._cachedLat - la) < Tolerance
    /\ Abs(s._cachedLon - lo) < Tolerance

\* getCurrentWeather up to its httpGet
getCurrentWeather(s, la, lo) ==
    LET e == [ s EXCEPT !.fn = "getCurrentWeather", !.lat = la, !.lon = lo,
                        !.pre = Snapshot(s) ]
    IN  IF cacheValid(e, la, lo)
        THEN opReturn([ e EXCEPT !.weather = e._cachedWeather, !.hit = TRUE ], 1)
        ELSE httpGet(e, "getCurrentWeather", Path(<< >>, << la, lo >>))

\* a cache update that does not look at the decoder's result
updateCacheAlways(s, success) ==
    IF s._cacheDuration # Zero32
    THEN [ s EXCEPT !._cachedWeather = s.weather,
                    !._cachedLat = s.lat,
                    !._cachedLon = s.lon,
                    !._lastWeatherTime = millis(s),
                    !._hasCachedWeather = TRUE,
                    !.aged = FALSE ]
    ELSE s

\* a cache update that keeps the coordinates of the entry it replaces
updateCacheKeepsCoords(s, success) ==
    IF success = 1 /\ s._cacheDuration # Zero32
    THEN [ s EXCEPT !._cachedWeather = s.weather,
                    !._lastWeatherTime = millis(s),
                    !._hasCachedWeather = TRUE,
                    !.aged = FALSE ]
    ELSE s

\* a cache update that does not look at the cache duration
updateCacheAnyDuration(s, success) ==
    IF success = 1
    THEN [ s EXCEPT !._cachedWeather = s.weather,
                    !._cachedLat = s.lat,
                    !._cachedLon = s.lon,
                    !._lastWeatherTime = millis(s),
                    !._hasCachedWeather = TRUE,
                    !.aged = FALSE ]
    ELSE s

\* the cache update of getCurrentWeather
updateCache(s, success) ==
    IF success = 1 /\ s._cacheDuration # Zero32
    THEN [ s EXCEPT !._cachedWeather = s.weather,
                    !._cachedLat = s.lat,
                    !._cachedLon = s.lon,
                    !._lastWeatherTime = millis(s),
                    !._hasCachedWeather = TRUE,
                    !.aged = FALSE ]
    ELSE s

\* getCurrentWeather from the return of its httpGet
getCurrentWeatherResume(s, ok) ==
    IF ~ok
    THEN [ s EXCEPT !.rv = 0 ]
    ELSE LET p == parseCurrentWeather(s, s.http.response)
         IN  updateCache(p, p.rv)

\* an endpoint function from the return of its httpGet
resume(s, ok) ==
    CASE s.fn = "getCurrentWeather" -> getCurrentWeatherResume(s, ok)
      [] s.fn \in { "getCoordinatesByName", "getLocationByCoordinates" } ->
            IF ok THEN parseGeoLocations(s, s.http.response, s.maxN)
                  ELSE [ s EXCEPT !.rv = -1 ]
      [] s.fn = "getCoordinatesByZip" ->
            IF ok THEN parseGeoZip(s, s.http.response)
                  ELSE [ s EXCEPT !.rv = 0 ]
      [] s.fn = "getAirPollution" ->
            IF ok THEN parseAirPollution(s, s.http.response)
                  ELSE [ s EXCEPT !.rv = 0 ]
      [] s.fn \in { "getAirPollutionForecast", "getAirPollutionHistory" } ->
            IF ok THEN parseAirPollutionList(s, s.http.response, s.maxN)
                  ELSE [ s EXCEPT !.rv = -1 ]
      [] s.fn = "getForecast" ->
            IF ok THEN parseForecast(s, s.http.response)
                  ELSE [ s EXCEPT !.rv = 0 ]

\* by-city operations that pass the coordinates on in the wrong order
byCitySwaps(s, count) ==
    IF count <= 0
    THEN opReturn(Fail(setError(s, "City not found"), "notfound"), 0)
    ELSE IF s.op = "getCurrentWeatherByCity"
    THEN getCurrentWeather(s, s.results[1].lon, s.results[1].lat)
    ELSE getForecast(s, s.results[1].lon, s.results[1].lat, s.cnt)

\* by-city operations that ask again when the geocoding request failed
byCityRetries(s, count) ==
    IF count < 0
    THEN httpGet(s, "getCoordinatesByName", Path(<< 1 >>, << >>))
    ELSE IF count = 0
    THEN opReturn(Fail(setError(s, "City not found"), "notfound"), 0)
    ELSE IF s.op = "getCurrentWeatherByCity"
    THEN getCurrentWeather(s, s.results[1].lat, s.results[1].lon)
    ELSE getForecast(s, s.results[1].lat, s.results[1].lon, s.cnt)

\* the by-city operations from the return of getCoordinatesByName
byCity(s, count) ==
    IF count <= 0
    THEN opReturn(Fail(setError(s, "City not found"), "notfound"), 0)
    ELSE IF s.op = "getCurrentWeatherByCity"
    THEN getCurrentWeather(s, s.results[1].lat, s.results[1].lon)
    ELSE getForecast(s, s.results[1].lat, s.results[1].lon, s.cnt)

\* httpGet returns ok: its locals die, its caller runs on
httpReturn(s, ok) ==
    LET a == resume([ s EXCEPT !.answers =
                                  Append(@, IF ok THEN << s.http.response >>
                                            ELSE << >>) ],
                    ok)
        b == [ a EXCEPT !.http = [ IdleHttp EXCEPT !.connected = a.http.connected ] ]
    IN  IF b.op \in ByCityOps /\ b.fn = "getCoordinatesByName"
        THEN byCity(b, b.rv)
        ELSE opReturn(b, b.rv)

----------------------------------------------------------------------------
(* Transport: httpGet on ESP32 (HTTPClient) *)

\* http.begin(url) and, when it fails, the return
esp32Begin(s, ok) ==
    IF ~ok
    THEN httpReturn(Fail(setError(s, "HTTP begin failed"), "connect"), FALSE)
    ELSE [ s EXCEPT !.pc = "GET" ]

\* _lastHttpCode = http.GET(): the library connects, sends and reads the
\* status line within d ms; opened tells whether it holds a connection now
esp32GET(s, code, opened, d) ==
    [ Elapse(s, d) EXCEPT !._lastHttpCode = code,
                          !.rx = IF code > 0 THEN << code >> ELSE << >>,
                          !.http = [ s.http EXCEPT !.connected = opened ],
                          !.pc = "end" ]

\* http.end()
end(s) == [ s EXCEPT !.http = [ s.http EXCEPT !.connected = FALSE ] ]

\* the status test, http.getString(), http.end() and the return
esp32End(s, body) ==
    IF s._lastHttpCode # HTTP_OK
    THEN httpReturn(
             end(Fail([ s EXCEPT !._lastError = HttpError(s._lastHttpCode) ],
                      IF s._lastHttpCode > 0 THEN "status"
                      ELSE IF s._lastHttpCode = -1 THEN "connect"
                      ELSE "read timeout")),
             FALSE)
    ELSE httpReturn(
             end([ s EXCEPT !.http = [ s.http EXCEPT
                                         !.response = [ st |-> "complete",
                                                        doc |-> body ] ] ]),
             TRUE)

----------------------------------------------------------------------------
(* Transport: httpGet on the UNO R4 WiFi (WiFiClient / WiFiSSLClient; the   *)
(* two branches are the same code on two client types)                     *)

\* the decimal digits of n, and a character that is no digit
RECURSIVE DigitsOf(_)
DigitsOf(n) == IF n < 10 THEN << n >> ELSE DigitsOf(n \div 10) \o << n % 10 >>
NoDigit == 10

\* a status line "HTTP/1.1 <code> <reason>\r\n": what follows its first space
StatusLine(code) == DigitsOf(code) \o << NoDigit >>

\* String::toInt(): the number its leading digits spell, 0 when there is none
RECURSIVE toIntFrom(_, _)
toIntFrom(str, acc) ==
    IF str = << >> \/ str[1] >= NoDigit
    THEN acc
    ELSE toIntFrom(Tail(str), acc * 10 + str[1])
toInt(str) == toIntFrom(str, 0)

\* String::substring(from, to) with from = 0: the first n characters
substring(str, n) == SubSeq(str, 1, IF Len(str) < n THEN Len(str) ELSE n)

\* a status parse that takes one character too few
statusCodeShort(afterSpace) == toInt(substring(afterSpace, 2))

\* line.substring(spaceIdx + 1, spaceIdx + 4).toInt()
statusCode(afterSpace) == toInt(substring(afterSpace, 3))

\* a stop() that leaves the connection open
stopLeaks(s) == s

\* client.stop()
stop(s) == [ s EXCEPT !.http = [ s.http EXCEPT !.connected = FALSE,
                                               !.avail = FALSE ] ]

\* What the peer may send next.  Any peer: a status line first, header
\* lines, the empty line, a fragment of a line; after the empty line the
\* body, whole or in pieces.  An orderly peer sends no fragment and no
\* header line, and only one body in pieces; it knows more forecast bodies.
Item(k, c, d) == [ kind |-> k, code |-> c, doc |-> d ]

PiecewiseDoc == ObjectDoc(<< 21 >>, << 800 >>, << LongName >>, << 2 >>, << 11, 12 >>)

Items(s) ==
    IF ~s.http.headersDone
    THEN { Item("blank", 0, MalformedDoc) }
         \cup ( IF s.peer = "any"
                THEN { Item("header", 0, MalformedDoc), Item("frag", 0, MalformedDoc) }
                ELSE { } )
         \cup ( IF s.sent = 0
                THEN { Item("status", c, MalformedDoc) : c \in StatusCodes }
                ELSE { } )
    ELSE IF s.http.response.st = "empty"
    THEN { Item("full", 0, d)
           : d \in IF s.peer = "any" THEN Bodies ELSE BodiesFor(s.fn) }
         \cup { Item("head", 0, d)
                : d \in IF s.peer = "any" THEN Bodies ELSE { PiecewiseDoc } }
    ELSE IF s.http.response.st = "prefix"
    THEN { Item("tail", 0, s.http.response.doc) }
         \cup ( IF s.peer = "any"
                THEN { Item("mid", 0, s.http.response.doc) }
                ELSE { } )
    ELSE { }

\* the peer and the network between two steps: more bytes arrive (a), the
\* peer keeps the connection (c)
Arrive(s, a, c) ==
    [ s EXCEPT !.http = [ s.http EXCEPT !.avail = s.http.avail \/ a,
                                        !.peerOpen = s.http.peerOpen /\ c ] ]

\* bytes may arrive while the connection is open, nothing is waiting to be
\* read, and the peer has something to send
MayArrive(s, a) ==
    a => /\ s.pc \in { "wait", "read" }
         /\ s.http.connected
         /\ s.http.peerOpen
         /\ ~s.http.avail
         /\ s.sent < MaxItems
         /\ Items(s) # { }

\* the peer may close a connection that is open
MayClose(s, c) ==
    ~c => /\ s.pc \in { "wait", "read" }
          /\ s.http.peerOpen

\* an orderly peer acts at once or not at all: it sends, or else closes,
\* only in answer to the step that connected or that took its last bytes,
\* and it closes when its body is complete
Prompt(s, r, a, c) ==
    s.peer = "orderly" =>
        /\ (a \/ ~c) => (s.pc = "connect" \/ r.sent # s.sent)
        /\ ~(a /\ ~c)
        /\ (r.sent # s.sent /\ r.http.response.st = "complete") => ~c

\* client.connect(host, port), the request, and timeout = millis()
unoConnect(s, ok, d) ==
    LET t == Elapse(s, d)
    IN  IF ~ok
        THEN httpReturn(Fail(setError(t, "Connection failed"), "connect"), FALSE)
        ELSE [ t EXCEPT !.http = [ t.http EXCEPT !.connected = TRUE,
                                                 !.peerOpen = TRUE,
                                                 !.timeout = millis(t) ],
                        !.pc = "wait" ]

\* millis() - timeout > _timeout
timedOut(s) == Lt32(s._timeout, Sub32(millis(s), s.http.timeout))

\* one test of the wait loop; when bytes are there, on to the read loop
unoWait(s) ==
    IF s.http.avail
    THEN [ s EXCEPT !.http = [ s.http EXCEPT !.response = EmptyResponse,
                                             !.headersDone = FALSE,
                                             !.line = "",
                                             !.timeout = millis(s) ],
                    !.readStart = millis(s),
                    !.pc = "read" ]
    ELSE IF timedOut(s)
    THEN httpReturn(stop(Fail(setError(s, "Response timeout"), "response timeout")),
                    FALSE)
    ELSE delay(s, WaitDelay)

\* the header branch of the read loop, over the characters of one item
readHeader(s, item) ==
    IF item.kind = "frag"
    THEN [ s EXCEPT !.http = [ s.http EXCEPT !.line = "x" ] ]
    ELSE [ s EXCEPT
             !._lastHttpCode =
                 IF s.http.line = "" /\ item.kind = "status"
                 THEN statusCode(StatusLine(item.code))
                 ELSE s._lastHttpCode,
             !.http = [ s.http EXCEPT
                          !.headersDone = s.http.line = "" /\ item.kind = "blank",
                          !.line = "" ] ]

\* response += buffer
readBody(s, item) ==
    [ s EXCEPT !.http = [ s.http EXCEPT
                            !.response =
                                [ st |-> IF item.kind \in { "full", "tail" }
                                         THEN "complete" ELSE "prefix",
                                  doc |-> item.doc ] ] ]

\* the body of the read loop when bytes are available
readAvailable(s, item) ==
    LET t == [ s EXCEPT
                 !.http = [ s.http EXCEPT !.timeout = millis(s), !.avail = FALSE ],
                 !.sent = @ + 1,
                 !.rx = IF item.kind = "status" THEN << item.code >> ELSE s.rx,
                 !.overrun = s.overrun
                             \/ Lt32(s._timeout, Sub32(millis(s), s.readStart)) ]
    IN  IF ~s.http.headersDone THEN readHeader(t, item) ELSE readBody(t, item)

\* the status test after the read loop, and the return
unoFinish(s) ==
    IF s._lastHttpCode # HTTP_OK
    THEN httpReturn(
             Fail([ s EXCEPT !._lastError = HttpError(s._lastHttpCode) ],
                  IF s.rx # << >> THEN "status" ELSE "nostatus"),
             FALSE)
    ELSE httpReturn(s, TRUE)

\* one test of the read loop and its body
unoRead(s, item) ==
    IF ~(s.http.peerOpen \/ s.http.avail)
    THEN unoFinish(stop(s))
    ELSE IF timedOut(s)
    THEN httpReturn(stop(Fail(setError(s, "Read timeout"), "read timeout")), FALSE)
    ELSE IF s.http.avail
    THEN readAvailable(s, item)
    ELSE delay(s, ReadDelay)

----------------------------------------------------------------------------
(* The client after construction *)

Fresh ==
    /\ platform \in Platforms
    /\ clock = Zero32
    /\ _apiKey = ""
    /\ _units = "OWM_UNITS_METRIC"
    /\ _lang = "en"
    /\ fetchedUnder = << >>
    /\ _cacheDuration = U32(OWM_CACHE_DURATION_MS)
    /\ _timeout \in Timeouts
    /\ _lastHttpCode = 0
    /\ _lastError = Err("")
    /\ _lastWeatherTime = Zero32
    /\ _cachedLat = 0
    /\ _cachedLon = 0
    /\ _cachedWeather = JunkWeather
    /\ _hasCachedWeather = FALSE
    /\ pc = "idle"
    /\ op = ""
    /\ fn = ""
    /\ lat = 0
    /\ lon = 0
    /\ maxN = 0
    /\ cnt = 0
    /\ reqs = << >>
    /\ answers = << >>
    /\ http = IdleHttp
    /\ ret = 0
    /\ weather = JunkWeather
    /\ location = JunkLocation
    /\ results = JunkResults
    /\ pollution = JunkPollution
    /\ list = JunkList
    /\ forecast = JunkForecast
    /\ calls = 0
    /\ ticks = 0
    /\ trips = 0
    /\ sent = 0
    /\ cause = ""
    /\ pre = [ cache |-> [ weather |-> JunkWeather, lat |-> 0, lon |-> 0,
                           time |-> Zero32, has |-> FALSE ],
               now |-> Zero32, aged |-> FALSE, trips |-> 0,
               dur |-> U32(OWM_CACHE_DURATION_MS), error |-> Err("") ]
    /\ served = << >>
    /\ hit = FALSE
    /\ decodes = 0
    /\ rx = << >>
    /\ aged = FALSE
    /\ readStart = Zero32
    /\ overrun = FALSE

----------------------------------------------------------------------------
(* The caller *)

\* no operation is running
AtRest == pc \in { "idle", "done" }

\* the caller has taken the last operation's results: its history is over,
\* and what its buffers hold is the caller's business
Rest(s) ==
    [ s EXCEPT !.pc = "idle", !.op = "", !.fn = "", !.trips = 0, !.sent = 0,
               !.cause = "", !.hit = FALSE, !.decodes = 0,
               !.pre = Snapshot([ s EXCEPT !.trips = 0 ]),
               !.rx = << >>, !.overrun = FALSE, !.readStart = Zero32,
               !.lat = 0, !.lon = 0, !.maxN = 0, !.cnt = 0, !.ret = 0,
               !.reqs = << >>, !.answers = << >>,
               !.weather = JunkWeather, !.location = JunkLocation,
               !.results = JunkResults, !.pollution = JunkPollution,
               !.list = JunkList, !.forecast = JunkForecast ]

\* the caller invokes public operation name
Enter(s, name) ==
    [ Rest(s) EXCEPT !.op = name, !.calls = @ + 1 ]

\* under any peer, only the first operation of the client is followed,
\* for one choice of its arguments
MayCall == AtRest /\ calls < MaxCalls /\ (peer = "any" => calls = 0)

Pick(S) == IF peer = "any" THEN { CHOOSE x \in S : TRUE } ELSE S

setCacheDuration ==
    /\ AtRest
    /\ \E durationMs \in Durations :
          Become([ Rest(St) EXCEPT !._cacheDuration = durationMs ])

begin ==
    /\ AtRest
    /\ \E apiKey \in ApiKeys :
          Become([ Rest(St) EXCEPT !._apiKey = apiKey ])

setUnits ==
    /\ AtRest
    /\ \E units \in Units :
          Become([ Rest(St) EXCEPT !._units = units ])

setLanguage ==
    /\ AtRest
    /\ \E language \in Languages :
          Become([ Rest(St) EXCEPT !._lang = language ])

setTimeout ==
    /\ AtRest
    /\ \E timeoutMs \in Timeouts :
          Become([ Rest(St) EXCEPT !._timeout = timeoutMs ])

\* time passes between two operations
Tick ==
    /\ AtRest
    /\ ticks < MaxTicks
    /\ \E d \in IdleSteps :
          Become([ Elapse(Rest(St), d[2]) EXCEPT
                     !.aged = @ \/ (St._hasCachedWeather /\ d[1] > 0),
                     !.ticks = @ + 1 ])

\* the coordinates the caller passes to an operation that is not cached
Somewhere == << 5, -5 >>

CallGetCoordinatesByName ==
    /\ MayCall
    /\ \E maxResults \in Pick(MaxArgs) :
          Become(getCoordinatesByName(Enter(St, "getCoordinatesByName"), maxResults))

CallGetCoordinatesByZip ==
    /\ MayCall
    /\ Become(httpGet(Enter(St, "getCoordinatesByZip"), "getCoordinatesByZip",
                      Path(<< >>, << >>)))

CallGetLocationByCoordinates ==
    /\ MayCall
    /\ \E maxResults \in Pick(MaxArgs) :
          Become(getLocationByCoordinates(Enter(St, "getLocationByCoordinates"),
                                          Somewhere[1], Somewhere[2], maxResults))

CallGetCurrentWeather ==
    /\ MayCall
    /\ \E c \in Pick(CoordPairs) :
          Become(getCurrentWeather(Enter(St, "getCurrentWeather"), c[1], c[2]))

CallGetCurrentWeatherByCity ==
    /\ MayCall
    /\ Become(getCoordinatesByName(Enter(St, "getCurrentWeatherByCity"), 1))

CallGetAirPollution ==
    /\ MayCall
    /\ Become(httpGet(Enter(St, "getAirPollution"), "getAirPollution",
                      Path(<< >>, Somewhere)))

CallGetAirPollutionForecast ==
    /\ MayCall
    /\ \E maxItems \in Pick(MaxArgs) :
          Become(httpGet([ Enter(St, "getAirPollutionForecast") EXCEPT
                             !.maxN = maxItems ],
                         "getAirPollutionForecast", Path(<< >>, Somewhere)))

CallGetAirPollutionHistory ==
    /\ MayCall
    /\ \E maxItems \in Pick(MaxArgs) :
          Become(httpGet([ Enter(St, "getAirPollutionHistory") EXCEPT
                             !.maxN = maxItems ],
                         "getAirPollutionHistory", Path(<< >>, Somewhere)))

CallGetForecast ==
    /\ MayCall
    /\ \E n \in Pick(CntArgs) :
          Become(getForecast([ Enter(St, "getForecast") EXCEPT !.cnt = n ],
                             Somewhere[1], Somewhere[2], n))

CallGetForecastByCity ==
    /\ MayCall
    /\ \E n \in Pick(CntArgs) :
          Become(getCoordinatesByName([ Enter(St, "getForecastByCity") EXCEPT
                                          !.cnt = n ], 1))

----------------------------------------------------------------------------
(* The steps of httpGet *)

Esp32Begin ==
    /\ pc = "begin"
    /\ \E ok \in BOOLEAN : Become(esp32Begin(St, ok))

Esp32GET ==
    /\ pc = "GET"
    /\ \E code \in Esp32Results, opened \in BOOLEAN, d \in NetDelays :
          /\ code > 0 => opened
          /\ Become(esp32GET(St, code, opened, d))

Esp32End ==
    /\ pc = "end"
    /\ \E body \in BodiesFor(fn) : Become(esp32End(St, body))

\* the step's result r, then what the peer and the network do meanwhile
Meanwhile(r) ==
    \E a \in BOOLEAN, c \in BOOLEAN :
        /\ MayArrive(r, a)
        /\ MayClose(r, c)
        /\ Prompt(St, r, a, c)
        /\ Become(Arrive(r, a, c))

UnoConnect ==
    /\ pc = "connect"
    /\ \E ok \in BOOLEAN, d \in NetDelays : Meanwhile(unoConnect(St, ok, d))

UnoWait ==
    /\ pc = "wait"
    /\ Meanwhile(unoWait(St))

UnoRead ==
    /\ pc = "read"
    /\ \E item \in ( IF Items(St) = { }
                     THEN { Item("blank", 0, MalformedDoc) }
                     ELSE Items(St) ) :
          Meanwhile(unoRead(St, item))

Next ==
    \/ setCacheDuration
    \/ setTimeout
    \/ Tick
    \/ CallGetCoordinatesByName
    \/ CallGetCoordinatesByZip
    \/ CallGetLocationByCoordinates
    \/ CallGetCurrentWeather
    \/ CallGetCurrentWeatherByCity
    \/ CallGetAirPollution
    \/ CallGetAirPollutionForecast
    \/ CallGetAirPollutionHistory
    \/ CallGetForecast
    \/ CallGetForecastByCity
    \/ Esp32Begin
    \/ Esp32GET
    \/ Esp32End
    \/ UnoConnect
    \/ UnoWait
    \/ UnoRead

Init == Fresh /\ peer = "orderly"

Spec == Init /\ [][Next]_vars

\* one operation of a fresh client, step by step, against any peer
WireInit == Fresh /\ peer = "any"

WireNext ==
    \/ setTimeout
    \/ CallGetCoordinatesByName
    \/ CallGetCoordinatesByZip
    \/ CallGetLocationByCoordinates
    \/ CallGetCurrentWeather
    \/ CallGetCurrentWeatherByCity
    \/ CallGetAirPollution
    \/ CallGetAirPollutionForecast
    \/ CallGetAirPollutionHistory
    \/ CallGetForecast
    \/ CallGetForecastByCity
    \/ Esp32Begin
    \/ Esp32GET
    \/ Esp32End
    \/ UnoConnect
    \/ UnoWait
    \/ UnoRead

WireSpec == WireInit /\ [][WireNext]_vars

\* the current-weather operation between changes of the configuration
ConfigNext ==
    \/ begin
    \/ setUnits
    \/ setLanguage
    \/ Tick
    \/ CallGetCurrentWeather
    \/ Esp32Begin
    \/ Esp32GET
    \/ Esp32End
    \/ UnoConnect
    \/ UnoWait
    \/ UnoRead

ConfigSpec == Init /\ [][ConfigNext]_vars

----------------------------------------------------------------------------
(* Properties of the current-weather cache *)

\* getCurrentWeather(lat, lon) has run to its return, called by the
\* application or by getCurrentWeatherByCity
WeatherReturned == pc = "done" /\ fn = "getCurrentWeather"

\* it made an exchange with the server
Fetched == trips > pre.trips

\* when it was entered: the true age of the cache entry was below the cache
\* duration
WasYoung ==
    /\ ~pre.aged
    /\ Lt32(Sub32(pre.now, pre.cache.time), pre.dur)

\* when it was entered: the entry was for coordinates within the tolerance
\* of the requested ones, in both
WasNear ==
    /\ Abs(pre.cache.lat - lat) < Tolerance
    /\ Abs(pre.cache.lon - lon) < Tolerance

\* when it was entered: the entry was for coordinates more than the
\* tolerance away from the requested ones, in one of the two
WasFar ==
    \/ Abs(pre.cache.lat - lat) > Tolerance
    \/ Abs(pre.cache.lon - lon) > Tolerance

\* C1: a getCurrentWeather that finds a positive cache duration, an entry
\* younger than that duration and coordinates within the tolerance returns
\* true, makes no exchange, leaves the cache as it was, and hands out the
\* structure that the fetch which filled the cache handed out.
C1_CacheHit ==
    ( WeatherReturned /\ pre.dur # Zero32 /\ pre.cache.has /\ WasYoung /\ WasNear )
        => /\ ret = 1
           /\ ~Fetched
           /\ Cache(St) = pre.cache
           /\ << weather >> = served

\* a hit for coordinates that are near the entry's but not the same
C1_Witness ==
    /\ WeatherReturned /\ pre.dur # Zero32 /\ pre.cache.has /\ WasYoung /\ WasNear
    /\ << lat, lon >> # << pre.cache.lat, pre.cache.lon >>
    /\ ret = 1
    /\ ~Fetched
    /\ weather = pre.cache.weather
    /\ weather # JunkWeather

\* C2: a getCurrentWeather that finds an entry whose true age has reached
\* the cache duration, however long ago it was filled, or an entry for
\* coordinates more than the tolerance away, makes an exchange with the
\* server and serves nothing from the cache.
C2_CacheMiss ==
    ( WeatherReturned /\ pre.cache.has /\ (~WasYoung \/ WasFar) )
        => Fetched /\ ~hit

\* C3: a getCurrentWeather that made its exchange and returns false, for a
\* transport failure, a status other than 200 or a body that does not
\* decode, leaves the cache as it found it.
C3_FailedRefreshKeepsCache ==
    ( WeatherReturned /\ Fetched /\ ret = 0 ) => Cache(St) = pre.cache

\* a refresh of a filled cache fails in the decoder
C3_Witness ==
    /\ WeatherReturned /\ Fetched /\ ret = 0
    /\ pre.cache.has
    /\ pre.dur # Zero32
    /\ cause = "json"
    /\ Cache(St) = pre.cache

\* C4: a getCurrentWeather that fetched with success under a non-zero cache
\* duration leaves the cache filled with the structure it returns, for the
\* requested coordinates, with age zero; and the cache is filled only so.
C4_SuccessfulFetchPopulates ==
    /\ ( WeatherReturned /\ Fetched /\ ret = 1 /\ _cacheDuration # Zero32 )
          => /\ _hasCachedWeather
             /\ _cachedWeather = weather
             /\ _cachedLat = lat
             /\ _cachedLon = lon
             /\ Sub32(clock, _lastWeatherTime) = Zero32
             /\ ~aged
    /\ _hasCachedWeather => served # << >>

\* a fetch for other coordinates replaces a filled entry
C4_Witness ==
    /\ WeatherReturned /\ Fetched /\ ret = 1 /\ _cacheDuration # Zero32
    /\ pre.cache.has
    /\ << pre.cache.lat, pre.cache.lon >> # << lat, lon >>
    /\ _cachedLat = lat
    /\ _cachedLon = lon
    /\ _cachedWeather = weather

\* C5: under a cache duration of zero, getCurrentWeather always makes an
\* exchange with the server, and no outcome of it changes the cache.
C5_CacheDisabled ==
    ( WeatherReturned /\ pre.dur = Zero32 )
        => /\ Fetched
           /\ ~hit
           /\ Cache(St) = pre.cache

\* under duration zero, a fetch succeeds next to an entry that is young and
\* near, and leaves it alone
C5_Witness ==
    /\ WeatherReturned /\ pre.dur = Zero32
    /\ pre.cache.has /\ ~pre.aged /\ WasNear
    /\ Fetched
    /\ ret = 1
    /\ Cache(St) = pre.cache

----------------------------------------------------------------------------
(* Properties of the transport and of error reporting *)

\* an operation has returned to the application
Returned == pc = "done"

\* the operations that return a count
CountOps == CountFns

\* the value by which an operation reports failure
FailureValue == IF op \in CountOps THEN -1 ELSE 0

\* C6: when the last exchange of an operation received a status code other
\* than 200, the operation returns its failure value, no decoder ran on the
\* response, and getLastHttpCode() is exactly the code received.
C6_Non200Status ==
    ( Returned /\ rx # << >> /\ rx[1] # HTTP_OK )
        => /\ ret = FailureValue
           /\ decodes = 0
           /\ _lastHttpCode = rx[1]

\* the UNO R4 build read a 404 from the wire after an earlier call left 200
C6_Witness ==
    /\ Returned /\ rx = << 404 >>
    /\ platform = "ARDUINO_UNOWIFIR4"
    /\ calls = 2
    /\ served # << >>
    /\ ret = FailureValue
    /\ _lastHttpCode = 404

\* the messages that name a failure cause
Messages(why) ==
    CASE why = "connect" ->
            { Err("Connection failed"), Err("HTTP begin failed"), HttpError(-1) }
      [] why = "response timeout" -> { Err("Response timeout") }
      [] why = "read timeout" -> { Err("Read timeout"), HttpError(-11) }
      [] why = "status" -> { HttpError(c) : c \in StatusCodes \ { HTTP_OK } }
      [] why = "json" -> { Err("JSON parse error") }
      [] why = "format" -> { Err("Invalid response format") }
      [] why = "notfound" -> { Err("City not found") }
      [] OTHER -> { }

\* the failure causes that have a message of their own
Causes == { "connect", "response timeout", "read timeout", "status", "json",
            "format", "notfound" }

\* C7: an operation that failed for one of the causes returns its failure
\* value, and getLastError() then is the message of that cause, whatever an
\* earlier call left.
C7_ErrorRecording ==
    ( Returned /\ cause \in Causes )
        => /\ ret = FailureValue
           /\ _lastError \in Messages(cause)

\* C8: a connection is open only inside the exchange that opened it: when
\* httpGet has returned, on any path, and until the next connect, the client
\* holds no connection.
C8_ConnectionRelease ==
    http.connected => pc \in { "wait", "read", "end" }

\* a connection that had delivered bytes is closed after a read timeout
C8_Witness ==
    /\ Returned
    /\ platform = "ARDUINO_UNOWIFIR4"
    /\ cause = "read timeout"
    /\ sent > 0
    /\ ~http.connected

\* C9: the read phase takes no bytes once the time since it began exceeds
\* the configured timeout.
C9_AbsoluteTimeout == ~overrun

\* the exchanges a public operation may make
MaxTrips == IF op \in ByCityOps THEN 2 ELSE 1

\* C10 as stated: no public operation makes more than one exchange.
C10_SingleRoundTrip == trips <= 1

\* C10: an operation makes at most one exchange, a by-city operation at most
\* two, and after the first failure of an exchange or of its decoding the
\* operation makes no further step but returns.
C10_RoundTrips ==
    /\ trips <= MaxTrips
    /\ cause # "" => Returned

\* a by-city operation succeeds with its second exchange
C10_Witness ==
    /\ Returned
    /\ op \in ByCityOps
    /\ trips = 2
    /\ ret = 1

----------------------------------------------------------------------------
(* Properties of the by-city operations and of the item counts *)

\* what the k-th httpGet of the operation gave its caller is a body of
\* valid JSON
Decodable(k) ==
    /\ Len(answers) >= k
    /\ answers[k] # << >>
    /\ answers[k][1].st = "complete"
    /\ answers[k][1].doc.kind # "malformed"

\* the document of that body
Doc(k) == answers[k][1].doc

\* the geocoding lookup of a by-city operation found n cities
Found(n) == Decodable(1) /\ Doc(1).kind = "array" /\ Len(Doc(1).elems) = n

\* the coordinates of the first city it found
FirstCity == << Doc(1).elems[1].lat, Doc(1).elems[1].lon >>

\* C11: a by-city operation first sends a geocoding request for exactly one
\* result.  When that finds no city, the operation returns false with "City
\* not found" and sends nothing more.  When it finds cities, the operation
\* runs the coordinate operation for the first one's coordinates - the
\* forecast request, or getCurrentWeather with its cache - and returns what
\* that returns; there is no third request.
C11_ByCity ==
    ( Returned /\ op \in ByCityOps )
        => /\ reqs[1] = [ to |-> "getCoordinatesByName", path |-> Path(<< 1 >>, << >>) ]
           /\ Len(reqs) <= 2
           /\ Found(0) => /\ ret = 0
                          /\ _lastError = Err("City not found")
                          /\ Len(reqs) = 1
           /\ ( \E n \in 1..MaxOut : Found(n) )
                => /\ op = "getForecastByCity"
                        => /\ Len(reqs) = 2
                           /\ reqs[2].to = "getForecast"
                           /\ reqs[2].path.at = FirstCity
                           /\ reqs[2].path.n \in { << >>, << cnt >> }
                           /\ ret = IF Decodable(2) THEN 1 ELSE 0
                   /\ op = "getCurrentWeatherByCity"
                        => /\ fn = "getCurrentWeather"
                           /\ << lat, lon >> = FirstCity
                           /\ \/ hit /\ Len(reqs) = 1 /\ ret = 1
                              \/ /\ ~hit
                                 /\ Len(reqs) = 2
                                 /\ reqs[2] = [ to |-> "getCurrentWeather",
                                                path |-> Path(<< >>, FirstCity) ]
                                 /\ ret = IF Decodable(2) THEN 1 ELSE 0

\* getForecastByCity succeeds for the first of two cities found
C11_Witness ==
    /\ Returned /\ op = "getForecastByCity"
    /\ Found(2)
    /\ Len(reqs) = 2
    /\ reqs[2].path.at = << 5, -5 >>
    /\ ret = 1

\* C12: the item count in the query of a request never exceeds the maximum:
\* OWM_MAX_GEO_RESULTS for limit= of the geocoding requests,
\* OWM_MAX_FORECAST_ITEMS for cnt= of the forecast request.
C12_CountClamping ==
    \A k \in 1..Len(reqs) :
        /\ reqs[k].to \in { "getCoordinatesByName", "getLocationByCoordinates" }
              => /\ reqs[k].path.n # << >>
                 /\ reqs[k].path.n[1] <= OWM_MAX_GEO_RESULTS
        /\ reqs[k].to = "getForecast"
              => \/ reqs[k].path.n = << >>
                 \/ reqs[k].path.n[1] <= OWM_MAX_FORECAST_ITEMS

\* the smaller of two numbers
Min(a, b) == IF a < b THEN a ELSE b

GeoListOps == { "getCoordinatesByName", "getLocationByCoordinates" }
AirListOps == { "getAirPollutionForecast", "getAirPollutionHistory" }

\* the upstream array a list operation was answered with
Upstream ==
    IF op \in GeoListOps THEN Doc(1).elems ELSE Doc(1).list

\* a list operation has returned after it decoded an upstream array for a
\* maximum that is not negative
ListDecoded ==
    /\ Returned
    /\ op \in GeoListOps \cup AirListOps
    /\ Decodable(1)
    /\ op \in GeoListOps => Doc(1).kind = "array"
    /\ maxN >= 0

\* output slot i holds upstream entry i
Holds(i) ==
    IF op \in AirListOps
    THEN list[i] = [ aqi |-> Upstream[i] ]
    ELSE /\ results[i].lat = Upstream[i].lat
         /\ results[i].lon = Upstream[i].lon
         /\ \A k \in 1..Min(Len(Upstream[i].name[1]), TextCap - 1) :
                results[i].name[k] = Upstream[i].name[1][k]

\* output slot i is as the caller left it
Untouched(i) ==
    IF op \in AirListOps THEN list[i] = JunkPollution
                         ELSE results[i] = JunkLocation

\* C13: a list decoder given an upstream array of n entries and a maximum
\* m >= 0 returns min(n, m) without an error, has written upstream entry i
\* to slot i for every i up to that count, and no slot after it.
C13_ListTruncation ==
    ListDecoded
        => /\ ret = Min(Len(Upstream), maxN)
           /\ cause = ""
           /\ \A i \in 1..MaxOut : IF i <= ret THEN Holds(i) ELSE Untouched(i)

\* two entries upstream, one asked for
C13_Witness ==
    /\ ListDecoded
    /\ op = "getCoordinatesByName"
    /\ Len(Upstream) = 2
    /\ maxN = 1
    /\ ret = 1
    /\ Holds(1)
    /\ Untouched(2)

----------------------------------------------------------------------------
(* Properties of the decoders *)

\* a text field holds a terminator
Terminated(text) == \E i \in 1..TextCap : text[i] = 0

\* the operation has returned after its last decoder run succeeded
DecodedWell == Returned /\ decodes > 0 /\ cause = ""

\* C14: after a successful decode every text field that was written holds a
\* terminator within its capacity, whatever the length of the source string
\* and whatever the output buffer held before.
C14_TextFieldBound ==
    DecodedWell
        => /\ fn = "getCurrentWeather" => Terminated(weather.name)
           /\ fn = "getCoordinatesByZip" => Terminated(location.name)
           /\ fn = "getForecast" => Terminated(forecast.city_name)
           /\ fn \in GeoListOps
                => \A i \in 1..Min(ret, MaxOut) : Terminated(results[i].name)

\* the body the last httpGet gave its caller
LastDoc == Doc(Len(answers))

\* a public operation whose own decoder ran has returned
DecoderRan == Returned /\ decodes > 0 /\ op = fn

\* C15: a decoder that fails on a JSON syntax error leaves its output
\* zeroed, whatever the buffer held before; one that succeeds leaves every
\* field at its value in the body or at its default.
C15_NoPartialParse ==
    DecoderRan
        => /\ cause = "json"
                => /\ fn = "getCurrentWeather" => weather = ZeroWeather
                   /\ fn = "getForecast" => forecast = ZeroForecast
                   /\ fn = "getAirPollution" => pollution = ZeroPollution
                   /\ fn = "getCoordinatesByZip" => location = ZeroLocation
                   /\ fn \in AirListOps
                        => \A i \in 1..Min(maxN, MaxOut) : list[i] = ZeroPollution
                   /\ fn \in GeoListOps
                        => \A i \in 1..Min(maxN, MaxOut) : results[i] = ZeroLocation
           /\ cause = ""
                => /\ fn = "getCurrentWeather" /\ ~hit
                        => /\ weather.temp = OrDefault(LastDoc.temp, 0)
                           /\ weather.id = OrDefault(LastDoc.id, 0)
                   /\ fn = "getAirPollution"
                        => pollution.aqi = IF LastDoc.list = << >> THEN 0
                                           ELSE LastDoc.list[1]
                   /\ fn = "getCoordinatesByZip"
                        => location.lat = 0 /\ location.lon = 0

\* C16: the geocoding list decoder answers valid JSON that is no array with
\* -1 and "Invalid response format", which is not the error of malformed
\* JSON; an array, empty or not, is decoded and records no error at all.
C16_GeoShapeCheck ==
    ( Returned /\ op \in GeoListOps /\ Len(answers) = 1 /\ answers[1] # << >> )
        => /\ ( Decodable(1) /\ Doc(1).kind # "array" )
                => /\ ret = -1
                   /\ _lastError = Err("Invalid response format")
           /\ ( Decodable(1) /\ Doc(1).kind = "array" )
                => /\ ret >= 0
                   /\ _lastError = pre.error
           /\ ~Decodable(1)
                => /\ ret = -1
                   /\ _lastError = Err("JSON parse error")

\* the reverse geocoding operation is answered with a JSON object
C16_Witness ==
    /\ Returned /\ op = "getLocationByCoordinates"
    /\ Decodable(1)
    /\ Doc(1).kind = "object"
    /\ ret = -1
    /\ _lastError = Err("Invalid response format")

----------------------------------------------------------------------------
(* Properties of what is cached and of the configuration *)

\* the operations that are not cached, by-city ones included
UncachedOps ==
    { "getCoordinatesByName", "getCoordinatesByZip", "getLocationByCoordinates",
      "getAirPollution", "getAirPollutionForecast", "getAirPollutionHistory",
      "getForecast", "getForecastByCity" }

\* C17: only current weather is cached.  While an endpoint function other
\* than getCurrentWeather runs, and when it has returned with success or
\* failure, the weather cache is as the operation found it; an operation
\* other than the two for current weather has called httpGet when it
\* returns and has served nothing from the cache, and the forecast step of
\* getForecastByCity has called httpGet for itself.
C17_OnlyWeatherCached ==
    /\ fn # "getCurrentWeather" => Cache(St) = pre.cache
    /\ ( Returned /\ op \in UncachedOps )
          => /\ trips >= 1
             /\ ~hit
             /\ Cache(St) = pre.cache
    /\ ( Returned /\ op = "getForecastByCity" /\ fn = "getForecast" )
          => /\ trips = 2
             /\ reqs[2].to = "getForecast"

\* a forecast is fetched with success next to a filled cache
C17_Witness ==
    /\ Returned /\ op = "getForecast"
    /\ ret = 1
    /\ pre.cache.has
    /\ trips = 1
    /\ Cache(St) = pre.cache

\* the last httpGet of the operation returned true to its caller
TransportOk == Len(answers) >= 1 /\ answers[Len(answers)] # << >>

\* C18: an httpGet returns true only when the status line it received
\* itself carried 200; after it, getLastHttpCode() is the code it received;
\* and when it received no status line, getLastHttpCode() is not a 200 left
\* by an earlier call.
C18_StatusFreshness ==
    ( Returned /\ Len(answers) >= 1 )
        => /\ TransportOk => rx = << HTTP_OK >>
           /\ rx # << >> => _lastHttpCode = rx[1]
           /\ rx = << >> => _lastHttpCode # HTTP_OK

\* the forecast decoder has run with success on the last body
ForecastDecoded ==
    Returned /\ fn = "getForecast" /\ decodes > 0 /\ cause = "" /\ TransportOk

\* C19: after a successful parseForecast, whatever cnt and list the body
\* carried, the cnt of the output is between 0 and OWM_MAX_FORECAST_ITEMS,
\* is the number of items decoded, and items[0..cnt-1] are the first cnt
\* entries of the upstream list in their order.
C19_ForecastCount ==
    ForecastDecoded
        => /\ forecast.cnt >= 0
           /\ forecast.cnt <= OWM_MAX_FORECAST_ITEMS
           /\ forecast.cnt <= Len(LastDoc.list)
           /\ \A i \in 1..MaxOut :
                  forecast.items[i] = IF i <= forecast.cnt THEN LastDoc.list[i] ELSE 0

\* C20: a getCurrentWeather that is served from the cache hands out a
\* structure that was fetched under the API key, the unit system and the
\* language that are configured now.
C20_CacheMatchesConfig ==
    ( WeatherReturned /\ hit ) => fetchedUnder = Config(St)

\* a by-city operation has returned false from its geocoding step
GeocodingStepFailed ==
    Returned /\ op \in ByCityOps /\ fn = "getCoordinatesByName" /\ ret = 0

\* C21: a by-city operation records "City not found" only when its
\* geocoding request succeeded and found no city; when the geocoding step
\* failed in the transport, for the status or in the decoder,
\* getLastError() after the operation is the message of that failure.
C21_ByCityErrorIdentity ==
    GeocodingStepFailed
        => /\ _lastError = Err("City not found") => Found(0)
           /\ cause \in Causes \ { "notfound" } => _lastError \in Messages(cause)

====
